---- MODULE Spec2Model ----
(***************************************************************************)
(* Arcane Clicker (IdleGame.tsx): the game-state engine of the component.  *)
(*                                                                         *)
(* Every useState hook of the component is a variable.  A handler (click,  *)
(* interval callback, zero-delay timeout) is one action: it reads the      *)
(* values its closure captured at the last commit, applies its queued      *)
(* updates in order, and ends with the re-render it causes: the useMemo    *)
(* values are recomputed when their dependencies changed, and an effect    *)
(* whose dependencies changed is torn down and set up again, which         *)
(* restarts its interval.                                                  *)
(*                                                                         *)
(* Units.  Time is in milliseconds.  Mana is counted in half points        *)
(* (ManaScale), because the regeneration is 1.5 per tick.  Multipliers of  *)
(* the zone table are kept as integer numerators: spellCdMultiplier and    *)
(* goldMultiplier in tenths, hpMultiplier in hundredths; the memoised      *)
(* goldPerSecMultiplier is in tenths.  Math.floor of a product is the      *)
(* integer division of the numerators.                                     *)
(***************************************************************************)
EXTENDS Integers, Sequences, FiniteSets, TLC

VARIABLES
    gold, level, tapDamage, passiveIncome, monsterMaxHp, monsterHp,
    mana, manaMax, mercenariesLevel, familiars, spells, bossDeadlineAt,
    tapMultiplier,          \* useMemo value, deps [spells.arcaneBurstEndAt]
    goldPerSecMultiplier,   \* useMemo value (tenths), deps [spells.timeWarpEndAt, goldMultiplier]
    lastTickRef,            \* lastTickRef.current
    now,                    \* Date.now()
    tickDueAt,              \* when the tick effect's interval fires next
    saveDueAt,              \* when the autosave effect's interval fires next
    timeouts,               \* pending setTimeout(nextLevel, 0): the closures, oldest first
    store,                  \* localStorage[STORAGE_KEY]: {} or {item}
    lastWriteAt,            \* history: when this session last wrote the store (load time at first)
    lastOp,                 \* history: the handler that made the last step
    clicks                  \* number of player inputs so far

gameVars == <<gold, level, tapDamage, passiveIncome, monsterMaxHp, monsterHp,
              mana, manaMax, mercenariesLevel, familiars, spells, bossDeadlineAt>>

vars == <<gold, level, tapDamage, passiveIncome, monsterMaxHp, monsterHp,
          mana, manaMax, mercenariesLevel, familiars, spells, bossDeadlineAt,
          tapMultiplier, goldPerSecMultiplier, lastTickRef, now, tickDueAt,
          saveDueAt, timeouts, store, lastWriteAt, lastOp, clicks>>

(***************************************************************************)
(* Bounds of the model                                                     *)
(***************************************************************************)
\* Date.now() when the component mounts ...
StartAt == 100000
\* ... and stops this long after the component mounted.
Horizon == 38000
\* The player clicks during the first PlayWindow ms after the mount, and
\* idles from then on.
PlayWindow == 1000
\* Player inputs (clicks) per run.
MaxClicks == 2
\* The highest level and the most purchases per upgrade line of the
\* snapshots the progression curves are evaluated from.
MaxLevel == 24
MaxOwned == 8
\* Input events dispatched back to back, ahead of the zero-delay timeouts.
StormClicks == 12

(***************************************************************************)
(* Program constants                                                       *)
(***************************************************************************)
Null == -1
\* The value of a property the object lacks, and the number NaN.
Undefined == -2
NaN == -3
ManaScale == 2
TickMs == 1000
AutosaveMs == 3000
BossMs == 30000
BossEvery == 5
BaseHp == 20
BonusGold == 25
ForgeCost == 100
ForgeLevel == 5
ForgeDamage == 3
BurstCost == 30
BurstMs == 10000
BurstCd == 45000
BurstFactor == 3
WarpCost == 40
WarpMs == 20000
WarpCd == 60000
WarpFactor == 2
BreakCost == 50
BreakCd == 90000
CritMultiplier == 2
\* 1.5 mana per tick, in half points
ManaRegen == 3
FreshMana == 50
DefaultManaMax == 100

\* The granularity of Date.now() between two timer firings: half a tick.
TimeStep == TickMs \div 2

Max(a, b) == IF a >= b THEN a ELSE b
Min(a, b) == IF a <= b THEN a ELSE b

\* An operand of + or * that is a number (undefined converts to NaN).
isNumber(x) == x # Undefined /\ x # NaN
\* a + b and a * b on numbers, undefined and NaN
jsAdd(a, b) == IF isNumber(a) /\ isNumber(b) THEN a + b ELSE NaN
jsMul(a, b) == IF isNumber(a) /\ isNumber(b) THEN a * b ELSE NaN
\* a >= b: false when an operand is undefined or NaN
jsGe(a, b) == isNumber(a) /\ isNumber(b) /\ a >= b
\* a <= b: false when an operand is undefined or NaN
jsLe(a, b) == isNumber(a) /\ isNumber(b) /\ a <= b

(***************************************************************************)
(* Exact arithmetic for base * (num/den)^k.  A value is <<i, digits>>: the *)
(* integer part and the fractional digits in base den, most significant    *)
(* first.  Math.pow on doubles agrees with it on the floors and ceilings   *)
(* taken below for every exponent the model reaches.                       *)
(***************************************************************************)
RECURSIVE MulDigits(_, _, _, _)
MulDigits(digits, num, den, i) ==
    IF i > Len(digits) THEN <<0, <<>>>>
    ELSE LET r == MulDigits(digits, num, den, i + 1)
             s == digits[i] * num + r[1]
         IN  <<s \div den, <<s % den>> \o r[2]>>

RatStep(v, num, den) ==
    LET m == MulDigits(v[2], num, den, 1)
        t == v[1] * num + m[1]
    IN  <<t \div den, <<t % den>> \o m[2]>>

RECURSIVE RatPow(_, _, _, _)
RatPow(base, num, den, k) ==
    IF k <= 0 THEN <<base, <<>>>>
    ELSE RatStep(RatPow(base, num, den, k - 1), num, den)

Floor(v) == v[1]
Ceil(v) == IF \E i \in 1..Len(v[2]) : v[2][i] # 0 THEN v[1] + 1 ELSE v[1]

(***************************************************************************)
(* Progression curve and zone table                                        *)
(***************************************************************************)
\* Fault: the exponent grows every second level only.
initialMonsterHpForLevelHalfExponent(l) == Floor(RatPow(BaseHp, 5, 4, (l - 1) \div 2))

\* Math.floor(base * Math.pow(1.25, level - 1))
initialMonsterHpForLevel(l) == Floor(RatPow(BaseHp, 5, 4, l - 1))

\* Math.ceil(10 * Math.pow(1.35, tapDamage - 1))
nextTapUpgradeCost(td) == Ceil(RatPow(10, 27, 20, td - 1))

\* Math.ceil(25 * Math.pow(1.32, passiveIncome))
nextPassiveUpgradeCost(p) == Ceil(RatPow(25, 33, 25, p))

\* Math.ceil(50 * Math.pow(1.25, mercenariesLevel))
mercenariesCost(m) == Ceil(RatPow(50, 5, 4, m))

FamiliarKinds == {"sprite", "golem", "dragon"}
\* Fault: the price of a familiar leaves its level out.
familiarCostFlat(k, lvl) ==
    CASE k = "sprite" -> 30
      [] k = "golem"  -> 200
      [] k = "dragon" -> 1000

\* 30 + level * 20, 200 + level * 120, 1000 + level * 600
familiarCost(k, lvl) ==
    CASE k = "sprite" -> 30 + lvl * 20
      [] k = "golem"  -> 200 + lvl * 120
      [] k = "dragon" -> 1000 + lvl * 600
\* the level thresholds of the unlock flags
familiarUnlockLevel(k) ==
    CASE k = "sprite" -> 5
      [] k = "golem"  -> 20
      [] k = "dragon" -> 60

currentZone(l) ==
    IF jsLe(l, 20) THEN [spellCdMultiplier |-> 8,  hpMultiplier |-> 100, goldMultiplier |-> 10]
    ELSE IF jsLe(l, 40) THEN [spellCdMultiplier |-> 10, hpMultiplier |-> 125, goldMultiplier |-> 13]
    ELSE [spellCdMultiplier |-> 10, hpMultiplier |-> 100, goldMultiplier |-> 10]

isBossLevel(l) == l % BossEvery = 0

\* useMemo body: Date.now() < spells.arcaneBurstEndAt ? 3 : 1
tapMultiplierAt(t, sp) == IF t < sp.arcaneBurstEndAt THEN BurstFactor ELSE 1

\* useMemo body: (Date.now() < spells.timeWarpEndAt ? 2 : 1) * currentZone.goldMultiplier
goldPerSecMultiplierAt(t, sp, l) ==
    (IF t < sp.timeWarpEndAt THEN WarpFactor ELSE 1) * currentZone(l).goldMultiplier

NoFamiliars ==
    [sprite |-> [level |-> 0, unlocked |-> FALSE],
     golem  |-> [level |-> 0, unlocked |-> FALSE],
     dragon |-> [level |-> 0, unlocked |-> FALSE]]

NoSpells ==
    [arcaneBurstEndAt |-> 0, arcaneBurstCdEndAt |-> 0, timeWarpEndAt |-> 0,
     timeWarpCdEndAt |-> 0, armorBreakCdEndAt |-> 0]

(***************************************************************************)
(* Save codec: the snapshot record, save() and the load effect             *)
(***************************************************************************)
\* saved.f ?? default
Opt(rec, f, default) == IF f \in DOMAIN rec THEN rec[f] ELSE default

\* saved.f: a property the parsed object lacks reads as undefined.
Field(rec, f) == Opt(rec, f, Undefined)

\* The object the autosave and beforeunload handlers pass to save().
Snapshot ==
    [gold |-> gold, level |-> level, tapDamage |-> tapDamage,
     passiveIncome |-> passiveIncome, monsterMaxHp |-> monsterMaxHp,
     monsterHp |-> monsterHp, lastSavedAt |-> now, mana |-> mana,
     manaMax |-> manaMax, mercenariesLevel |-> mercenariesLevel,
     familiars |-> familiars, spells |-> spells]

\* The object handleHardReset passes to save().
DefaultSnapshot ==
    [gold |-> 0, level |-> 1, tapDamage |-> 1, passiveIncome |-> 0,
     monsterMaxHp |-> initialMonsterHpForLevel(1),
     monsterHp |-> initialMonsterHpForLevel(1), lastSavedAt |-> now,
     mana |-> FreshMana * ManaScale, manaMax |-> DefaultManaMax * ManaScale,
     mercenariesLevel |-> 0, familiars |-> NoFamiliars, spells |-> NoSpells]

\* Fault: save() writes only the seven fields of the first version.
saveWithoutExtensions(state) ==
    {[f \in {"gold", "level", "tapDamage", "passiveIncome", "monsterMaxHp", "monsterHp",
             "lastSavedAt"} |-> IF f = "lastSavedAt" THEN now ELSE state[f]]}

\* save(state): setItem(STORAGE_KEY, JSON.stringify({...state, lastSavedAt: Date.now()}))
save(state) == {[state EXCEPT !.lastSavedAt = now]}

\* The stored item when getItem throws, and when it holds a string that
\* JSON.parse rejects.
Unreadable == [securityError |-> TRUE]
Unparseable == [syntaxError |-> TRUE]

\* loadSave(): the parsed object, or null (the empty set) when there is no
\* item or when the try block throws.
loadSave(st) ==
    IF st = {} THEN {}
    ELSE LET raw == CHOOSE x \in st : TRUE
         IN  IF raw = Unreadable \/ raw = Unparseable THEN {} ELSE {raw}

\* Fault: the elapsed seconds are not clamped at 0.
offlineGoldUnclamped(saved, t) ==
    jsMul((t - Opt(saved, "lastSavedAt", t)) \div 1000, Field(saved, "passiveIncome"))

\* elapsedSec * saved.passiveIncome
offlineGold(saved, t) ==
    jsMul(Max(0, (t - Opt(saved, "lastSavedAt", t)) \div 1000), Field(saved, "passiveIncome"))

\* Fault: the unlock flags of a snapshot without familiars use > for >=.
defaultFamiliarsStrict(saved) ==
    [k \in FamiliarKinds |->
        [level |-> 0,
         unlocked |-> jsGe(Field(saved, "level"), familiarUnlockLevel(k) + 1)]]

\* The familiars of a snapshot that has none: unlocked by the saved level.
defaultFamiliars(saved) ==
    [k \in FamiliarKinds |->
        [level |-> 0, unlocked |-> jsGe(Field(saved, "level"), familiarUnlockLevel(k))]]

\* The game state the load effect sets from a parsed snapshot at time t.
LoadedState(saved, t) ==
    [gold |-> jsAdd(Field(saved, "gold"), offlineGold(saved, t)),
     level |-> Field(saved, "level"),
     tapDamage |-> Field(saved, "tapDamage"),
     passiveIncome |-> Field(saved, "passiveIncome"),
     monsterMaxHp |-> Field(saved, "monsterMaxHp"),
     monsterHp |-> Field(saved, "monsterHp"),
     mana |-> Min(Opt(saved, "mana", 0), Opt(saved, "manaMax", DefaultManaMax * ManaScale)),
     manaMax |-> Opt(saved, "manaMax", DefaultManaMax * ManaScale),
     mercenariesLevel |-> Opt(saved, "mercenariesLevel", 0),
     familiars |-> Opt(saved, "familiars", defaultFamiliars(saved)),
     spells |-> Opt(saved, "spells", NoSpells)]

\* The game state of a fresh game: the useState defaults and the else branch
\* of the load effect.
FreshState ==
    [gold |-> 0, level |-> 1, tapDamage |-> 1, passiveIncome |-> 0,
     monsterMaxHp |-> initialMonsterHpForLevel(1),
     monsterHp |-> initialMonsterHpForLevel(1),
     mana |-> FreshMana * ManaScale, manaMax |-> DefaultManaMax * ManaScale,
     mercenariesLevel |-> 0, familiars |-> NoFamiliars, spells |-> NoSpells]

\* The load effect: null from loadSave() starts a fresh game.
Load(st, t) ==
    IF loadSave(st) = {} THEN FreshState
    ELSE LoadedState(CHOOSE x \in loadSave(st) : TRUE, t)

(***************************************************************************)
(* The stores a session can start from: none, and snapshots the autosave   *)
(* of an earlier session wrote.                                            *)
(***************************************************************************)
\* How long before the mount the snapshot was written (negative: the clock
\* was set back in between).
SaveAges == {10000, 500, 0 - 2000}

\* Level 4, the monster nearly dead, written SaveAge ms before the mount.
MidFightSnapshot(age) ==
    [gold |-> 100, level |-> 4, tapDamage |-> 2, passiveIncome |-> 5,
     monsterMaxHp |-> initialMonsterHpForLevel(4), monsterHp |-> 1,
     lastSavedAt |-> StartAt - age,
     mana |-> 60 * ManaScale, manaMax |-> DefaultManaMax * ManaScale,
     mercenariesLevel |-> 0, familiars |-> NoFamiliars, spells |-> NoSpells]

\* Level 20, the last level of the first zone, Arcane Burst and Time Warp
\* cast 9.5 s and 19.5 s before the mount (cooldowns of the first zone).
ZoneEdgeSnapshot ==
    [gold |-> 300, level |-> 20, tapDamage |-> 5, passiveIncome |-> 3,
     monsterMaxHp |-> initialMonsterHpForLevel(20), monsterHp |-> 3,
     lastSavedAt |-> StartAt - 500,
     mana |-> 100 * ManaScale, manaMax |-> DefaultManaMax * ManaScale,
     mercenariesLevel |-> 1,
     familiars |-> [sprite |-> [level |-> 1, unlocked |-> TRUE],
                    golem  |-> [level |-> 0, unlocked |-> TRUE],
                    dragon |-> [level |-> 0, unlocked |-> FALSE]],
     spells |-> [arcaneBurstEndAt |-> StartAt + 500,
                 arcaneBurstCdEndAt |-> StartAt + 26500,
                 timeWarpEndAt |-> StartAt + 500,
                 timeWarpCdEndAt |-> StartAt + 28500,
                 armorBreakCdEndAt |-> 0]]

\* Level 21, the first level of the second zone: the monster nearly dead,
\* full mana, no spell on cooldown.  The HP is the one nextLevel set on the
\* advance from level 20.
CryptSnapshot ==
    [gold |-> 40, level |-> 21, tapDamage |-> 3, passiveIncome |-> 0,
     monsterMaxHp |-> (initialMonsterHpForLevel(21) * currentZone(20).hpMultiplier) \div 100,
     monsterHp |-> 2,
     lastSavedAt |-> StartAt - 500,
     mana |-> 100 * ManaScale, manaMax |-> DefaultManaMax * ManaScale,
     mercenariesLevel |-> 0,
     familiars |-> [sprite |-> [level |-> 0, unlocked |-> TRUE],
                    golem  |-> [level |-> 0, unlocked |-> TRUE],
                    dragon |-> [level |-> 0, unlocked |-> FALSE]],
     spells |-> NoSpells]

InitialStores ==
    {{}} \cup {{MidFightSnapshot(a)} : a \in SaveAges}
         \cup {{ZoneEdgeSnapshot}, {CryptSnapshot}}

Init ==
    /\ now = StartAt
    /\ store \in InitialStores
    /\ LET s == Load(store, now) IN
        /\ gold = s.gold
        /\ level = s.level
        /\ tapDamage = s.tapDamage
        /\ passiveIncome = s.passiveIncome
        /\ monsterMaxHp = s.monsterMaxHp
        /\ monsterHp = s.monsterHp
        /\ mana = s.mana
        /\ manaMax = s.manaMax
        /\ mercenariesLevel = s.mercenariesLevel
        /\ familiars = s.familiars
        /\ spells = s.spells
        /\ tapMultiplier = tapMultiplierAt(now, s.spells)
        /\ goldPerSecMultiplier = goldPerSecMultiplierAt(now, s.spells, s.level)
    /\ bossDeadlineAt = Null
    /\ lastTickRef = now
    /\ tickDueAt = now + TickMs
    /\ saveDueAt = now + AutosaveMs
    /\ timeouts = <<>>
    /\ lastWriteAt = now
    /\ lastOp = "load"
    /\ clicks = 0

(***************************************************************************)
(* The re-render that ends a handler                                       *)
(***************************************************************************)
\* The dependency list of the tick effect changed.  applyDamage's own
\* dependencies are monsterMaxHp, currentZone.goldMultiplier and nextLevel,
\* whose dependencies are level and currentZone.hpMultiplier.  familiars is
\* compared by identity: newFamiliars says a new object was set.
tickDepsChanged(newFamiliars) ==
    \/ passiveIncome' # passiveIncome
    \/ goldPerSecMultiplier' # goldPerSecMultiplier
    \/ manaMax' # manaMax
    \/ newFamiliars
    \/ mercenariesLevel' # mercenariesLevel
    \/ isBossLevel(level') # isBossLevel(level)
    \/ bossDeadlineAt' # bossDeadlineAt
    \/ monsterMaxHp' # monsterMaxHp
    \/ level' # level

\* The dependency list of the autosave effect changed (loaded stays true).
saveDepsChanged(newFamiliars, newSpells) ==
    \/ gold' # gold
    \/ level' # level
    \/ tapDamage' # tapDamage
    \/ passiveIncome' # passiveIncome
    \/ monsterMaxHp' # monsterMaxHp
    \/ monsterHp' # monsterHp
    \/ mana' # mana
    \/ manaMax' # manaMax
    \/ mercenariesLevel' # mercenariesLevel
    \/ newFamiliars
    \/ newSpells

\* When an effect whose interval lasts period fires next: its interval is
\* cleared and set again when its dependencies changed, and runs on when
\* it has just fired.
nextDue(due, period, restarted, fired) ==
    IF restarted \/ fired THEN now + period ELSE due

\* The two useMemo values, then the two effects.  fired names the interval
\* whose callback this step is ("tick", "autosave" or "none").
Rerender(newFamiliars, newSpells, fired) ==
    /\ tapMultiplier' =
         IF spells'.arcaneBurstEndAt # spells.arcaneBurstEndAt
         THEN tapMultiplierAt(now, spells') ELSE tapMultiplier
    /\ goldPerSecMultiplier' =
         IF \/ spells'.timeWarpEndAt # spells.timeWarpEndAt
            \/ currentZone(level').goldMultiplier # currentZone(level).goldMultiplier
         THEN goldPerSecMultiplierAt(now, spells', level') ELSE goldPerSecMultiplier
    /\ tickDueAt' = nextDue(tickDueAt, TickMs, tickDepsChanged(newFamiliars), fired = "tick")
    /\ saveDueAt' = nextDue(saveDueAt, AutosaveMs,
                            saveDepsChanged(newFamiliars, newSpells), fired = "autosave")

(***************************************************************************)
(* Combat resolver                                                         *)
(***************************************************************************)
\* Math.max(0, hp - rawDamage)
damagedHp(hp, rawDamage) == Max(0, hp - rawDamage)

\* Fault: the reward ignores the gold multiplier of the zone.
killGoldUnscaled(maxHp, l) == Max(1, maxHp \div 20)

\* Math.max(1, Math.floor(monsterMaxHp * 0.05 * currentZone.goldMultiplier))
killGold(maxHp, l) == Max(1, (maxHp * currentZone(l).goldMultiplier) \div 200)

\* The closure of nextLevel that applyDamage hands to setTimeout.
nextLevelClosure == [level |-> level, hpMultiplier |-> currentZone(level).hpMultiplier]

\* Fault: a kill leaves the HP that remains after the subtraction, unfloored.
applyDamageUnfloored(hp, rawDamage, bonus) ==
    LET nextHp == hp - rawDamage IN
    [hp |-> nextHp,
     gold |-> IF nextHp <= 0
              THEN killGold(monsterMaxHp, level) + (IF bonus THEN BonusGold ELSE 0) ELSE 0,
     killed |-> nextHp <= 0]

\* applyDamage(rawDamage) on monster HP hp: the new HP, the gold it awards
\* and whether it schedules nextLevel.  bonus is Math.random() < 0.05.
applyDamage(hp, rawDamage, bonus) ==
    LET nextHp == damagedHp(hp, rawDamage) IN
    IF nextHp <= 0
    THEN [hp |-> 0,
          gold |-> killGold(monsterMaxHp, level) + (IF bonus THEN BonusGold ELSE 0),
          killed |-> TRUE]
    ELSE [hp |-> nextHp, gold |-> 0, killed |-> FALSE]

\* 0.05 + dragon.level * 0.02 reaches 1 (in hundredths)
critCertain == 5 + familiars.dragon.level * 2 >= 100

(***************************************************************************)
(* Player inputs                                                           *)
(***************************************************************************)
\* A click that runs handler op.
Click(op) ==
    /\ clicks < MaxClicks
    /\ now <= StartAt + PlayWindow
    /\ clicks' = clicks + 1
    /\ lastOp' = op
    /\ UNCHANGED <<now, lastTickRef>>

\* handleAttack: crit is Math.random() < critChance, bonus the drop roll.
handleAttack(crit, bonus) ==
    /\ Click("handleAttack")
    /\ crit \/ ~critCertain
    /\ LET base == tapDamage * tapMultiplier
           dmg == IF crit THEN base * CritMultiplier ELSE base
           r == applyDamage(monsterHp, dmg, bonus)
       IN  /\ mana' = Min(manaMax, mana + 1 * ManaScale)
           /\ monsterHp' = r.hp
           /\ gold' = gold + r.gold
           /\ timeouts' = IF r.killed THEN Append(timeouts, nextLevelClosure) ELSE timeouts
    /\ UNCHANGED <<level, tapDamage, passiveIncome, monsterMaxHp, manaMax,
                   mercenariesLevel, familiars, spells, bossDeadlineAt,
                   store, lastWriteAt>>
    /\ Rerender(FALSE, FALSE, "none")

\* Fault: the purchase guard never refuses.
cannotAffordNever(cost) == FALSE

\* Fault: the purchase guard lets a player who is one gold short through.
cannotAffordOffByOne(cost) == gold < cost - 1

\* if (gold < cost) return;
cannotAfford(cost) == gold < cost

\* A handler that returned at its guard: nothing is set.
Refused ==
    /\ UNCHANGED <<gameVars, timeouts, store, lastWriteAt>>
    /\ Rerender(FALSE, FALSE, "none")

\* Fault: the price charged is the one of the level being bought.
buyTapUpgradeChargesNextCost ==
    /\ Click("buyTapUpgrade")
    /\ IF cannotAfford(nextTapUpgradeCost(tapDamage)) THEN Refused
       ELSE /\ gold' = gold - nextTapUpgradeCost(tapDamage + 1)
            /\ tapDamage' = tapDamage + 1
            /\ UNCHANGED <<level, passiveIncome, monsterMaxHp, monsterHp, mana, manaMax,
                           mercenariesLevel, familiars, spells, bossDeadlineAt,
                           timeouts, store, lastWriteAt>>
            /\ Rerender(FALSE, FALSE, "none")

buyTapUpgrade ==
    /\ Click("buyTapUpgrade")
    /\ IF cannotAfford(nextTapUpgradeCost(tapDamage)) THEN Refused
       ELSE /\ gold' = gold - nextTapUpgradeCost(tapDamage)
            /\ tapDamage' = tapDamage + 1
            /\ UNCHANGED <<level, passiveIncome, monsterMaxHp, monsterHp, mana, manaMax,
                           mercenariesLevel, familiars, spells, bossDeadlineAt,
                           timeouts, store, lastWriteAt>>
            /\ Rerender(FALSE, FALSE, "none")

\* The button is disabled below level 3 (canBuyMiners).
buyPassiveUpgrade ==
    /\ level >= 3
    /\ Click("buyPassiveUpgrade")
    /\ IF cannotAfford(nextPassiveUpgradeCost(passiveIncome)) THEN Refused
       ELSE /\ gold' = gold - nextPassiveUpgradeCost(passiveIncome)
            /\ passiveIncome' = passiveIncome + 1
            /\ UNCHANGED <<level, tapDamage, monsterMaxHp, monsterHp, mana, manaMax,
                           mercenariesLevel, familiars, spells, bossDeadlineAt,
                           timeouts, store, lastWriteAt>>
            /\ Rerender(FALSE, FALSE, "none")

buyArcaneForge ==
    /\ Click("buyArcaneForge")
    /\ IF ~(level >= ForgeLevel) \/ cannotAfford(ForgeCost) THEN Refused
       ELSE /\ gold' = gold - ForgeCost
            /\ tapDamage' = tapDamage + ForgeDamage
            /\ UNCHANGED <<level, passiveIncome, monsterMaxHp, monsterHp, mana, manaMax,
                           mercenariesLevel, familiars, spells, bossDeadlineAt,
                           timeouts, store, lastWriteAt>>
            /\ Rerender(FALSE, FALSE, "none")

buyMercenaries ==
    /\ Click("buyMercenaries")
    /\ IF cannotAfford(mercenariesCost(mercenariesLevel)) THEN Refused
       ELSE /\ gold' = gold - mercenariesCost(mercenariesLevel)
            /\ mercenariesLevel' = mercenariesLevel + 1
            /\ UNCHANGED <<level, tapDamage, passiveIncome, monsterMaxHp, monsterHp, mana,
                           manaMax, familiars, spells, bossDeadlineAt,
                           timeouts, store, lastWriteAt>>
            /\ Rerender(FALSE, FALSE, "none")

\* Fault: a familiar is sold without a look at its unlocked flag.
buyFamiliarIgnoresLock(k) ==
    /\ Click("buyFamiliar")
    /\ IF cannotAfford(familiarCost(k, familiars[k].level)) THEN Refused
       ELSE /\ gold' = gold - familiarCost(k, familiars[k].level)
            /\ familiars' = [familiars EXCEPT ![k].level = @ + 1]
            /\ UNCHANGED <<level, tapDamage, passiveIncome, monsterMaxHp, monsterHp, mana,
                           manaMax, mercenariesLevel, spells, bossDeadlineAt,
                           timeouts, store, lastWriteAt>>
            /\ Rerender(TRUE, FALSE, "none")

\* The onClick of the Sprite, Golem and Dragonnet buttons.
buyFamiliar(k) ==
    /\ Click("buyFamiliar")
    /\ IF ~familiars[k].unlocked \/ cannotAfford(familiarCost(k, familiars[k].level)) THEN Refused
       ELSE /\ gold' = gold - familiarCost(k, familiars[k].level)
            /\ familiars' = [familiars EXCEPT ![k].level = @ + 1]
            /\ UNCHANGED <<level, tapDamage, passiveIncome, monsterMaxHp, monsterHp, mana,
                           manaMax, mercenariesLevel, spells, bossDeadlineAt,
                           timeouts, store, lastWriteAt>>
            /\ Rerender(TRUE, FALSE, "none")

\* Fault: the cooldown ignores the zone.
spellCdUnscaled(base) == base

\* Math.floor(base * currentZone.spellCdMultiplier)
spellCd(base) == (base * currentZone(level).spellCdMultiplier) \div 10

\* Fault: Arcane Burst is cast without a look at its cooldown.
castArcaneBurstIgnoresCooldown ==
    /\ Click("castArcaneBurst")
    /\ IF mana < BurstCost * ManaScale THEN Refused
       ELSE /\ mana' = mana - BurstCost * ManaScale
            /\ spells' = [spells EXCEPT !.arcaneBurstEndAt = now + BurstMs,
                                        !.arcaneBurstCdEndAt = now + spellCd(BurstCd)]
            /\ UNCHANGED <<gold, level, tapDamage, passiveIncome, monsterMaxHp, monsterHp,
                           manaMax, mercenariesLevel, familiars, bossDeadlineAt,
                           timeouts, store, lastWriteAt>>
            /\ Rerender(FALSE, TRUE, "none")

castArcaneBurst ==
    /\ Click("castArcaneBurst")
    /\ IF mana < BurstCost * ManaScale \/ now < spells.arcaneBurstCdEndAt THEN Refused
       ELSE /\ mana' = mana - BurstCost * ManaScale
            /\ spells' = [spells EXCEPT !.arcaneBurstEndAt = now + BurstMs,
                                        !.arcaneBurstCdEndAt = now + spellCd(BurstCd)]
            /\ UNCHANGED <<gold, level, tapDamage, passiveIncome, monsterMaxHp, monsterHp,
                           manaMax, mercenariesLevel, familiars, bossDeadlineAt,
                           timeouts, store, lastWriteAt>>
            /\ Rerender(FALSE, TRUE, "none")

\* Fault: Time Warp writes its duration and its cooldown to each other's
\* timestamp.
castTimeWarpSwapsTimestamps ==
    /\ Click("castTimeWarp")
    /\ IF mana < WarpCost * ManaScale \/ now < spells.timeWarpCdEndAt THEN Refused
       ELSE /\ mana' = mana - WarpCost * ManaScale
            /\ spells' = [spells EXCEPT !.timeWarpEndAt = now + spellCd(WarpCd),
                                        !.timeWarpCdEndAt = now + WarpMs]
            /\ UNCHANGED <<gold, level, tapDamage, passiveIncome, monsterMaxHp, monsterHp,
                           manaMax, mercenariesLevel, familiars, bossDeadlineAt,
                           timeouts, store, lastWriteAt>>
            /\ Rerender(FALSE, TRUE, "none")

castTimeWarp ==
    /\ Click("castTimeWarp")
    /\ IF mana < WarpCost * ManaScale \/ now < spells.timeWarpCdEndAt THEN Refused
       ELSE /\ mana' = mana - WarpCost * ManaScale
            /\ spells' = [spells EXCEPT !.timeWarpEndAt = now + WarpMs,
                                        !.timeWarpCdEndAt = now + spellCd(WarpCd)]
            /\ UNCHANGED <<gold, level, tapDamage, passiveIncome, monsterMaxHp, monsterHp,
                           manaMax, mercenariesLevel, familiars, bossDeadlineAt,
                           timeouts, store, lastWriteAt>>
            /\ Rerender(FALSE, TRUE, "none")

\* Fault: the HP after Armor Break is not floored at 1.
armorBrokenHpUnfloored(hp) == (hp * 8) \div 10

\* Math.max(1, Math.floor(hp * 0.8))
armorBrokenHp(hp) == Max(1, (hp * 8) \div 10)

castArmorBreak ==
    /\ Click("castArmorBreak")
    /\ IF \/ mana < BreakCost * ManaScale
          \/ now < spells.armorBreakCdEndAt
          \/ ~isBossLevel(level)
       THEN Refused
       ELSE /\ mana' = mana - BreakCost * ManaScale
            /\ monsterHp' = armorBrokenHp(monsterHp)
            /\ spells' = [spells EXCEPT !.armorBreakCdEndAt = now + spellCd(BreakCd)]
            /\ UNCHANGED <<gold, level, tapDamage, passiveIncome, monsterMaxHp,
                           manaMax, mercenariesLevel, familiars, bossDeadlineAt,
                           timeouts, store, lastWriteAt>>
            /\ Rerender(FALSE, TRUE, "none")

\* Fault: the reset keeps the tap damage the player bought.
ResetStateKeepsTapDamage ==
    [gold |-> 0, level |-> 1, tapDamage |-> tapDamage, passiveIncome |-> 0,
     monsterMaxHp |-> initialMonsterHpForLevel(1),
     monsterHp |-> initialMonsterHpForLevel(1),
     mana |-> FreshMana * ManaScale, manaMax |-> DefaultManaMax * ManaScale,
     mercenariesLevel |-> 0, familiars |-> NoFamiliars, spells |-> NoSpells]

\* The game state handleHardReset sets.
ResetState ==
    [gold |-> 0, level |-> 1, tapDamage |-> 1, passiveIncome |-> 0,
     monsterMaxHp |-> initialMonsterHpForLevel(1),
     monsterHp |-> initialMonsterHpForLevel(1),
     mana |-> FreshMana * ManaScale, manaMax |-> DefaultManaMax * ManaScale,
     mercenariesLevel |-> 0, familiars |-> NoFamiliars, spells |-> NoSpells]

handleHardReset ==
    /\ Click("handleHardReset")
    /\ LET s == ResetState IN
        /\ gold' = s.gold
        /\ level' = s.level
        /\ tapDamage' = s.tapDamage
        /\ passiveIncome' = s.passiveIncome
        /\ monsterMaxHp' = s.monsterMaxHp
        /\ monsterHp' = s.monsterHp
        /\ mana' = s.mana
        /\ manaMax' = s.manaMax
        /\ mercenariesLevel' = s.mercenariesLevel
        /\ familiars' = s.familiars
        /\ spells' = s.spells
    /\ bossDeadlineAt' = Null
    /\ store' = save(DefaultSnapshot)
    /\ lastWriteAt' = now
    /\ UNCHANGED timeouts
    /\ Rerender(TRUE, TRUE, "none")

\* How long the page takes to come back after it is left (ms).
ReloadDelays == {TimeStep}

\* The page is left and opened again: the beforeunload handler saves the
\* state of the current render, the pending timers die with the page, and
\* delay ms later the component mounts and the load effect runs.
reload(delay) ==
    /\ clicks < MaxClicks
    /\ now <= StartAt + PlayWindow
    /\ clicks' = clicks + 1
    /\ lastOp' = "reload"
    /\ store' = save(Snapshot)
    /\ lastWriteAt' = now
    /\ now' = now + delay
    /\ LET s == Load(save(Snapshot), now + delay) IN
        /\ gold' = s.gold
        /\ level' = s.level
        /\ tapDamage' = s.tapDamage
        /\ passiveIncome' = s.passiveIncome
        /\ monsterMaxHp' = s.monsterMaxHp
        /\ monsterHp' = s.monsterHp
        /\ mana' = s.mana
        /\ manaMax' = s.manaMax
        /\ mercenariesLevel' = s.mercenariesLevel
        /\ familiars' = s.familiars
        /\ spells' = s.spells
        /\ tapMultiplier' = tapMultiplierAt(now + delay, s.spells)
        /\ goldPerSecMultiplier' = goldPerSecMultiplierAt(now + delay, s.spells, s.level)
    /\ bossDeadlineAt' = Null
    /\ lastTickRef' = now + delay
    /\ tickDueAt' = now + delay + TickMs
    /\ saveDueAt' = now + delay + AutosaveMs
    /\ timeouts' = <<>>

(***************************************************************************)
(* Timers                                                                  *)
(***************************************************************************)
\* Fault: the mercenaries do not join the auto-attack.
autoDamageWithoutMercenaries(golemRoll) ==
    (IF familiars.sprite.unlocked /\ familiars.sprite.level > 0
     THEN Max(1, familiars.sprite.level) ELSE 0)
  + (IF familiars.golem.unlocked /\ familiars.golem.level > 0 /\ golemRoll
     THEN Max(2, familiars.sprite.level * 6 + familiars.golem.level * 2) ELSE 0)

\* The auto-attack of one tick; golemRoll is Math.random() < 0.12.
autoDamage(golemRoll) ==
    (IF familiars.sprite.unlocked /\ familiars.sprite.level > 0
     THEN Max(1, familiars.sprite.level) ELSE 0)
  + (IF familiars.golem.unlocked /\ familiars.golem.level > 0 /\ golemRoll
     THEN Max(2, familiars.sprite.level * 6 + familiars.golem.level * 2) ELSE 0)
  + (IF mercenariesLevel > 0 THEN mercenariesLevel ELSE 0)

\* Math.floor(passiveIncome * goldPerSecMultiplier)
passiveGold == (passiveIncome * goldPerSecMultiplier) \div 10

\* Fault: the boss enrages on every tick once a deadline is armed.
enragedBeforeDeadline == isBossLevel(level) /\ bossDeadlineAt # Null

\* isBossLevel && bossDeadlineAt && Date.now() >= bossDeadlineAt
enraged == isBossLevel(level) /\ bossDeadlineAt # Null /\ now >= bossDeadlineAt

\* Fault: the regeneration is not clamped.
regeneratedManaUnclamped == mana + ManaRegen

\* Math.min(manaMax, m + 1.5)
regeneratedMana == Min(manaMax, mana + ManaRegen)

\* The callback of the tick effect's interval.
tick(golemRoll, bonus) ==
    /\ now >= tickDueAt
    /\ LET auto == autoDamage(golemRoll)
           r == IF auto > 0 THEN applyDamage(monsterHp, auto, bonus)
                ELSE [hp |-> monsterHp, gold |-> 0, killed |-> FALSE]
       IN  /\ gold' = gold + passiveGold + r.gold
           /\ mana' = regeneratedMana
           /\ monsterHp' = IF enraged THEN monsterMaxHp ELSE r.hp
           /\ bossDeadlineAt' = IF enraged THEN now + BossMs ELSE bossDeadlineAt
           /\ timeouts' = IF r.killed THEN Append(timeouts, nextLevelClosure) ELSE timeouts
    /\ lastTickRef' = now
    /\ lastOp' = "tick"
    /\ UNCHANGED <<level, tapDamage, passiveIncome, monsterMaxHp, manaMax,
                   mercenariesLevel, familiars, spells, now, store, lastWriteAt, clicks>>
    /\ Rerender(FALSE, FALSE, "tick")

\* The callback of the autosave effect's interval.
autosave ==
    /\ now >= saveDueAt
    /\ store' = save(Snapshot)
    /\ lastWriteAt' = now
    /\ lastOp' = "autosave"
    /\ UNCHANGED <<gameVars, timeouts, now, lastTickRef, clicks>>
    /\ Rerender(FALSE, FALSE, "autosave")

\* Fault: every level advance arms a deadline.
bossDeadlineForAlways(newLevel) == now + BossMs

\* if (newLevel % 5 === 0) setBossDeadlineAt(Date.now() + 30000);
\* else setBossDeadlineAt(null);
bossDeadlineFor(newLevel) == IF newLevel % BossEvery = 0 THEN now + BossMs ELSE Null

\* setTimeout(nextLevel, 0) fires: nextLevel runs with the level and the
\* zone its closure captured.
nextLevel ==
    /\ timeouts # <<>>
    /\ LET c == Head(timeouts)
           newLevel == c.level + 1
           baseHp == initialMonsterHpForLevel(newLevel)
           hp == (baseHp * c.hpMultiplier) \div 100
       IN  /\ level' = newLevel
           /\ monsterMaxHp' = hp
           /\ monsterHp' = hp
           /\ familiars' = [k \in FamiliarKinds |->
                              [familiars[k] EXCEPT
                                 !.unlocked = @ \/ newLevel >= familiarUnlockLevel(k)]]
           /\ bossDeadlineAt' = bossDeadlineFor(newLevel)
    /\ timeouts' = Tail(timeouts)
    /\ lastOp' = "nextLevel"
    /\ UNCHANGED <<gold, tapDamage, passiveIncome, mana, manaMax, mercenariesLevel,
                   spells, now, lastTickRef, store, lastWriteAt, clicks>>
    /\ Rerender(TRUE, FALSE, "none")

\* Time passes, up to the next interval that is due: by TimeStep while the
\* player may still click, and straight to the next firing once the player
\* idles.  A zero-delay timeout fires before the clock moves.
advance ==
    /\ timeouts = <<>>
    /\ now < tickDueAt
    /\ now < saveDueAt
    /\ now < StartAt + Horizon
    /\ now' = IF now <= StartAt + PlayWindow
              THEN Min(now + TimeStep, Min(tickDueAt, saveDueAt))
              ELSE Min(tickDueAt, saveDueAt)
    /\ lastOp' = "advance"
    /\ UNCHANGED <<gameVars, tapMultiplier, goldPerSecMultiplier, lastTickRef,
                   tickDueAt, saveDueAt, timeouts, store, lastWriteAt, clicks>>

Next ==
    \/ \E crit \in BOOLEAN, bonus \in BOOLEAN : handleAttack(crit, bonus)
    \/ buyTapUpgrade
    \/ buyPassiveUpgrade
    \/ buyArcaneForge
    \/ buyMercenaries
    \/ \E k \in FamiliarKinds : buyFamiliar(k)
    \/ castArcaneBurst
    \/ castTimeWarp
    \/ castArmorBreak
    \/ handleHardReset
    \/ \E delay \in ReloadDelays : reload(delay)
    \/ \E golemRoll \in BOOLEAN, bonus \in BOOLEAN : tick(golemRoll, bonus)
    \/ autosave
    \/ nextLevel
    \/ advance

Spec == Init /\ [][Next]_vars

(***************************************************************************)
(* The mount: the component is constructed over whatever the store holds,  *)
(* then the load effect runs.                                              *)
(***************************************************************************)
\* The fields the save() of the earlier version of the component wrote
\* under the same storage key.
OldFields ==
    {"gold", "level", "tapDamage", "passiveIncome", "monsterMaxHp", "monsterHp",
     "lastSavedAt"}
OldFormat(rec) == [f \in OldFields |-> rec[f]]

\* The fields the load effect reads without a ?? default.
RequiredFields ==
    {"gold", "level", "tapDamage", "passiveIncome", "monsterMaxHp", "monsterHp"}
\* An object that lacks the fields fs.
Without(rec, fs) == [f \in DOMAIN rec \ fs |-> rec[f]]

\* Level 60, the level that unlocks the dragon, written 10 s before the
\* mount; 10440487 is floor(20 * 1.25^59), the HP of a level-60 monster.
LateGameSnapshot ==
    [gold |-> 5000, level |-> 60, tapDamage |-> 40, passiveIncome |-> 20,
     monsterMaxHp |-> 10440487,
     monsterHp |-> 10440487 - 1000,
     lastSavedAt |-> StartAt - 10000,
     mana |-> 80 * ManaScale, manaMax |-> DefaultManaMax * ManaScale,
     mercenariesLevel |-> 2,
     familiars |-> [sprite |-> [level |-> 2, unlocked |-> TRUE],
                    golem  |-> [level |-> 1, unlocked |-> TRUE],
                    dragon |-> [level |-> 0, unlocked |-> TRUE]],
     spells |-> NoSpells]

WellFormedSnapshots ==
    {MidFightSnapshot(a) : a \in SaveAges}
    \cup {ZoneEdgeSnapshot, CryptSnapshot, LateGameSnapshot}

\* What the store can hold at the mount: nothing, an item that cannot be
\* read or parsed, a snapshot of either format, and such a snapshot with
\* some of its fields missing.
StoredItems ==
    {{}, {Unreadable}, {Unparseable}}
    \cup {{Without(s, fs)} : s \in WellFormedSnapshots, fs \in SUBSET RequiredFields}
    \cup {{Without(OldFormat(s), fs)} : s \in WellFormedSnapshots, fs \in SUBSET RequiredFields}

\* The useState defaults.
MountState ==
    [gold |-> 0, level |-> 1, tapDamage |-> 1, passiveIncome |-> 0,
     monsterMaxHp |-> initialMonsterHpForLevel(1),
     monsterHp |-> initialMonsterHpForLevel(1),
     mana |-> 0, manaMax |-> DefaultManaMax * ManaScale,
     mercenariesLevel |-> 0, familiars |-> NoFamiliars, spells |-> NoSpells]

\* The state after construction, before any effect has run.
MountInit ==
    /\ now = StartAt
    /\ store \in StoredItems
    /\ LET s == MountState IN
        /\ gold = s.gold
        /\ level = s.level
        /\ tapDamage = s.tapDamage
        /\ passiveIncome = s.passiveIncome
        /\ monsterMaxHp = s.monsterMaxHp
        /\ monsterHp = s.monsterHp
        /\ mana = s.mana
        /\ manaMax = s.manaMax
        /\ mercenariesLevel = s.mercenariesLevel
        /\ familiars = s.familiars
        /\ spells = s.spells
        /\ tapMultiplier = tapMultiplierAt(now, s.spells)
        /\ goldPerSecMultiplier = goldPerSecMultiplierAt(now, s.spells, s.level)
    /\ bossDeadlineAt = Null
    /\ lastTickRef = now
    /\ tickDueAt = now + TickMs
    /\ saveDueAt = now + AutosaveMs
    /\ timeouts = <<>>
    /\ lastWriteAt = now
    /\ lastOp = "mount"
    /\ clicks = 0

\* The load effect, and the re-render its updates cause.
loadEffect ==
    /\ lastOp = "mount"
    /\ LET s == Load(store, now) IN
        /\ gold' = s.gold
        /\ level' = s.level
        /\ tapDamage' = s.tapDamage
        /\ passiveIncome' = s.passiveIncome
        /\ monsterMaxHp' = s.monsterMaxHp
        /\ monsterHp' = s.monsterHp
        /\ mana' = s.mana
        /\ manaMax' = s.manaMax
        /\ mercenariesLevel' = s.mercenariesLevel
        /\ familiars' = s.familiars
        /\ spells' = s.spells
        /\ tapMultiplier' = tapMultiplierAt(now, s.spells)
        /\ goldPerSecMultiplier' = goldPerSecMultiplierAt(now, s.spells, s.level)
    /\ lastTickRef' = now
    /\ tickDueAt' = now + TickMs
    /\ saveDueAt' = now + AutosaveMs
    /\ lastOp' = "load"
    /\ UNCHANGED <<bossDeadlineAt, now, timeouts, store, lastWriteAt, clicks>>

MountNext == loadEffect

MountSpec == MountInit /\ [][MountNext]_vars

(***************************************************************************)
(* The progression curves: sessions that start from the snapshot of a game *)
(* grown to level l with n purchases in every upgrade line, and in which   *)
(* the player kills, buys and resets before the first timer is due.        *)
(***************************************************************************)
\* What the autosave of a session at level l wrote: n purchases in every
\* line whose button that level shows, the monster at 1 HP.
GrownSnapshot(l, n) ==
    [gold |-> 5000, level |-> l, tapDamage |-> n + 1, passiveIncome |-> n,
     monsterMaxHp |-> (initialMonsterHpForLevel(l) * currentZone(Max(1, l - 1)).hpMultiplier)
                          \div 100,
     monsterHp |-> 1,
     lastSavedAt |-> StartAt - 500,
     mana |-> 100 * ManaScale, manaMax |-> DefaultManaMax * ManaScale,
     mercenariesLevel |-> n,
     familiars |-> [k \in FamiliarKinds |->
                      IF l >= familiarUnlockLevel(k)
                      THEN [level |-> n, unlocked |-> TRUE]
                      ELSE [level |-> 0, unlocked |-> FALSE]],
     spells |-> NoSpells]

GrownStores == {{}} \cup {{GrownSnapshot(l, n)} : l \in 1..MaxLevel, n \in 0..MaxOwned}

CurveInit ==
    /\ now = StartAt
    /\ store \in GrownStores
    /\ LET s == Load(store, now) IN
        /\ gold = s.gold
        /\ level = s.level
        /\ tapDamage = s.tapDamage
        /\ passiveIncome = s.passiveIncome
        /\ monsterMaxHp = s.monsterMaxHp
        /\ monsterHp = s.monsterHp
        /\ mana = s.mana
        /\ manaMax = s.manaMax
        /\ mercenariesLevel = s.mercenariesLevel
        /\ familiars = s.familiars
        /\ spells = s.spells
        /\ tapMultiplier = tapMultiplierAt(now, s.spells)
        /\ goldPerSecMultiplier = goldPerSecMultiplierAt(now, s.spells, s.level)
    /\ bossDeadlineAt = Null
    /\ lastTickRef = now
    /\ tickDueAt = now + TickMs
    /\ saveDueAt = now + AutosaveMs
    /\ timeouts = <<>>
    /\ lastWriteAt = now
    /\ lastOp = "load"
    /\ clicks = 0

CurveNext ==
    \/ \E crit \in BOOLEAN, bonus \in BOOLEAN : handleAttack(crit, bonus)
    \/ buyTapUpgrade
    \/ buyPassiveUpgrade
    \/ buyMercenaries
    \/ \E k \in FamiliarKinds : buyFamiliar(k)
    \/ handleHardReset
    \/ nextLevel

CurveSpec == CurveInit /\ [][CurveNext]_vars

(***************************************************************************)
(* A burst of input: taps and the Reset button queued behind one another   *)
(* while the zero-delay timeouts wait, as when the page is busy or a       *)
(* script clicks.  No timer is due before the burst is over.               *)
(***************************************************************************)
\* The session starts from the level-4 snapshot; the click counter starts
\* StormClicks below the budget of a play session.
StormInit ==
    /\ now = StartAt
    /\ store = {MidFightSnapshot(500)}
    /\ LET s == Load(store, now) IN
        /\ gold = s.gold
        /\ level = s.level
        /\ tapDamage = s.tapDamage
        /\ passiveIncome = s.passiveIncome
        /\ monsterMaxHp = s.monsterMaxHp
        /\ monsterHp = s.monsterHp
        /\ mana = s.mana
        /\ manaMax = s.manaMax
        /\ mercenariesLevel = s.mercenariesLevel
        /\ familiars = s.familiars
        /\ spells = s.spells
        /\ tapMultiplier = tapMultiplierAt(now, s.spells)
        /\ goldPerSecMultiplier = goldPerSecMultiplierAt(now, s.spells, s.level)
    /\ bossDeadlineAt = Null
    /\ lastTickRef = now
    /\ tickDueAt = now + TickMs
    /\ saveDueAt = now + AutosaveMs
    /\ timeouts = <<>>
    /\ lastWriteAt = now
    /\ lastOp = "load"
    /\ clicks = MaxClicks - StormClicks

StormNext ==
    \/ \E crit \in BOOLEAN, bonus \in BOOLEAN : handleAttack(crit, bonus)
    \/ handleHardReset
    \/ nextLevel

StormSpec == StormInit /\ [][StormNext]_vars

(***************************************************************************)
(* Properties                                                              *)
(***************************************************************************)

\* C1: gold is never negative, whatever taps, ticks, purchases, casts and
\* hard resets happen, from a fresh game or a loaded snapshot.
GoldNeverNegative == gold >= 0

\* A purchase went through and the player can no longer afford the next one.
GoldSpentDown ==
    /\ lastOp = "buyMercenaries"
    /\ mercenariesLevel > 0
    /\ gold < mercenariesCost(mercenariesLevel)

\* C2: monster HP stays within 0 .. monsterMaxHp.
MonsterHpWithinBounds == 0 <= monsterHp /\ monsterHp <= monsterMaxHp

\* A tap worth more than the remaining HP has just killed the monster.
OverkillTap ==
    /\ lastOp = "handleAttack"
    /\ monsterHp = 0
    /\ timeouts # <<>>
    /\ tapDamage > 1

\* C3: level changes only by +1 (a defeat) or to 1 by a hard reset.
LevelStepsByOne ==
    [][level' # level =>
         \/ level' = level + 1
         \/ (lastOp' = "handleHardReset" /\ level' = 1)]_vars

\* C4: after a level advance to level N, monsterMaxHp = monsterHp =
\* floor(monsterHpForLevel(N) * hpMultiplier of the zone that contains N).
LevelAdvanceHpOfNewZone ==
    lastOp = "nextLevel" =>
        /\ monsterMaxHp =
             (initialMonsterHpForLevel(level) * currentZone(level).hpMultiplier) \div 100
        /\ monsterHp = monsterMaxHp

\* C5: a tap at time t deals tapDamage * 3 if t < arcaneBurstEndAt and
\* tapDamage * 1 otherwise, doubled on a crit (floored at 0 HP).
TapUsesBurstWindow ==
    [][lastOp' = "handleAttack" =>
         LET m == IF now < spells.arcaneBurstEndAt THEN BurstFactor ELSE 1
         IN  monsterHp' \in {damagedHp(monsterHp, tapDamage * m),
                             damagedHp(monsterHp, tapDamage * m * CritMultiplier)}]_vars

\* C6: a tick at time t that kills nothing adds
\* floor(passiveIncome * m * goldMultiplier) to gold, with m = 2 if
\* t < timeWarpEndAt and m = 1 otherwise.
TickUsesWarpWindow ==
    [][(lastOp' = "tick" /\ timeouts' = timeouts) =>
         LET m == IF now < spells.timeWarpEndAt THEN WarpFactor ELSE 1
         IN  gold' = gold + (passiveIncome * m * currentZone(level).goldMultiplier) \div 10]_vars

\* C7: no 3-second span of play passes without a write of the snapshot.
AutosaveEveryThreeSeconds == now - lastWriteAt <= AutosaveMs

\* C8: no 1-second span passes without a tick.
TickEverySecond == now - lastTickRef <= TickMs

OfflineAccrual ==
    lastOp = "load" =>
        \A s \in store :
            /\ gold = s.gold + Max(0, (now - s.lastSavedAt) \div 1000) * s.passiveIncome
            /\ (s.gold = 100 /\ s.passiveIncome = 5 /\ now = s.lastSavedAt + 10000)
                 => gold = 150
            /\ now <= s.lastSavedAt => gold = s.gold

\* The example: 100 gold and 5 gold/s saved 10 s before the load.
OfflineTenSeconds ==
    /\ lastOp = "load"
    /\ gold = 150
    /\ \E s \in store :
         s.gold = 100 /\ s.passiveIncome = 5 /\ now = s.lastSavedAt + 10000

\* The stored item is absent, unreadable, unparseable, or an object that
\* lacks a required field.
Malformed(st) ==
    \/ loadSave(st) = {}
    \/ \E x \in loadSave(st) : ~(RequiredFields \subseteq DOMAIN x)

\* C11: when the stored snapshot is absent or malformed, loading starts a
\* fresh game: gold 0, level 1, tapDamage 1, passiveIncome 0 and
\* monsterHp = monsterMaxHp = monsterHpForLevel(1).
MalformedLoadsFresh ==
    (lastOp = "load" /\ Malformed(store)) =>
        /\ gold = 0 /\ level = 1 /\ tapDamage = 1 /\ passiveIncome = 0
        /\ monsterMaxHp = initialMonsterHpForLevel(1)
        /\ monsterHp = monsterMaxHp

\* C12: loading a snapshot of the 7-field format yields mana 0, manaMax 100,
\* no mercenaries, every familiar at level 0 and unlocked by the saved
\* level (5, 20, 60), all spell timestamps 0, and the six core fields of
\* the snapshot (gold with the offline accrual of its passiveIncome).
OldFormatDefaults ==
    lastOp = "load" =>
        \A s \in store :
            DOMAIN s = OldFields =>
                /\ mana = 0
                /\ manaMax = 100 * ManaScale
                /\ mercenariesLevel = 0
                /\ familiars.sprite = [level |-> 0, unlocked |-> s.level >= 5]
                /\ familiars.golem = [level |-> 0, unlocked |-> s.level >= 20]
                /\ familiars.dragon = [level |-> 0, unlocked |-> s.level >= 60]
                /\ \A f \in DOMAIN spells : spells[f] = 0
                /\ gold = s.gold
                          + Max(0, (now - s.lastSavedAt) \div 1000) * s.passiveIncome
                /\ (now - s.lastSavedAt < 1000 => gold = s.gold)
                /\ level = s.level
                /\ tapDamage = s.tapDamage
                /\ passiveIncome = s.passiveIncome
                /\ monsterMaxHp = s.monsterMaxHp
                /\ monsterHp = s.monsterHp

\* A 7-field snapshot saved at level 20 has been loaded: the golem is
\* unlocked at its threshold, the dragon is not.
OldFormatAtGolemLevel ==
    /\ lastOp = "load"
    /\ \E s \in store : DOMAIN s = OldFields /\ s.level = 20
    /\ familiars.golem.unlocked
    /\ ~familiars.dragon.unlocked

\* C13: a buy action (tap upgrade, passive upgrade, Arcane Forge,
\* mercenaries, any familiar) invoked with gold < cost changes no field of
\* the game state.
BuyWithoutGoldIsNoOp ==
    [][(\/ buyTapUpgrade /\ gold < nextTapUpgradeCost(tapDamage)
        \/ buyPassiveUpgrade /\ gold < nextPassiveUpgradeCost(passiveIncome)
        \/ buyArcaneForge /\ gold < ForgeCost
        \/ buyMercenaries /\ gold < mercenariesCost(mercenariesLevel)
        \/ \E k \in FamiliarKinds :
              buyFamiliar(k) /\ gold < familiarCost(k, familiars[k].level))
       => UNCHANGED <<gameVars, timeouts, store>>]_vars

\* The passive upgrade was clicked one gold short of its cost and nothing
\* was bought.
PassiveUpgradeRefused ==
    /\ lastOp = "buyPassiveUpgrade"
    /\ gold + 1 = nextPassiveUpgradeCost(passiveIncome)
    /\ passiveIncome = 5

\* C14: a cast attempted on cooldown, or with mana below the cost (30, 40,
\* 50), or for Armor Break on a non-boss level, leaves mana, every spell
\* timestamp and monsterHp unchanged.
RefusedCastIsNoOp ==
    [][(\/ castArcaneBurst /\ (mana < 30 * ManaScale \/ now < spells.arcaneBurstCdEndAt)
        \/ castTimeWarp /\ (mana < 40 * ManaScale \/ now < spells.timeWarpCdEndAt)
        \/ castArmorBreak /\ (\/ mana < 50 * ManaScale
                              \/ now < spells.armorBreakCdEndAt
                              \/ level % 5 # 0))
       => UNCHANGED <<mana, spells, monsterHp>>]_vars

\* Arcane Burst was clicked with full mana while on cooldown, and its
\* timestamps are still those of the earlier cast.
BurstRefusedOnCooldown ==
    /\ lastOp = "castArcaneBurst"
    /\ mana = manaMax
    /\ now < spells.arcaneBurstCdEndAt
    /\ spells.arcaneBurstCdEndAt = StartAt + 26500

\* floor(baseCooldown * spellCooldownMultiplier) of the zone of level l:
\* 0.8 up to level 20, 1 above.
ZoneCooldown(base, l) == IF l <= 20 THEN (base * 4) \div 5 ELSE base

\* C15: a cast that passes its gates deducts exactly the mana cost and sets,
\* for that ability only, activeUntil = now + duration (10000, 20000) and
\* cooldownUntil = now + floor(baseCooldown * spellCooldownMultiplier of the
\* current level's zone), baseCooldown 45000 / 60000 / 90000.
CastSetsOwnTimestamps ==
    [][/\ (castArcaneBurst /\ mana >= 30 * ManaScale /\ now >= spells.arcaneBurstCdEndAt) =>
            /\ mana' = mana - 30 * ManaScale
            /\ spells' = [spells EXCEPT
                            !.arcaneBurstEndAt = now + 10000,
                            !.arcaneBurstCdEndAt = now + ZoneCooldown(45000, level)]
       /\ (castTimeWarp /\ mana >= 40 * ManaScale /\ now >= spells.timeWarpCdEndAt) =>
            /\ mana' = mana - 40 * ManaScale
            /\ spells' = [spells EXCEPT
                            !.timeWarpEndAt = now + 20000,
                            !.timeWarpCdEndAt = now + ZoneCooldown(60000, level)]
       /\ (/\ castArmorBreak /\ mana >= 50 * ManaScale
           /\ now >= spells.armorBreakCdEndAt /\ level % 5 = 0) =>
            /\ mana' = mana - 50 * ManaScale
            /\ spells' = [spells EXCEPT
                            !.armorBreakCdEndAt = now + ZoneCooldown(90000, level)]
      ]_vars

\* Time Warp has just been cast in the first zone: its cooldown is 48 s.
TimeWarpCastInFirstZone ==
    /\ lastOp = "castTimeWarp"
    /\ level <= 20
    /\ spells.timeWarpEndAt = now + 20000
    /\ spells.timeWarpCdEndAt = now + 48000

\* C16: a tick on a boss level whose armed deadline has passed resets
\* monsterHp to monsterMaxHp and re-arms the deadline at now + 30000; any
\* other tick leaves bossDeadlineAt alone and does not raise monsterHp.
EnrageOnExpiredDeadline ==
    [][lastOp' = "tick" =>
         IF level % 5 = 0 /\ bossDeadlineAt # Null /\ now >= bossDeadlineAt
         THEN monsterHp' = monsterMaxHp /\ bossDeadlineAt' = now + 30000
         ELSE monsterHp' <= monsterHp /\ bossDeadlineAt' = bossDeadlineAt]_vars

\* The boss has just enraged, 30 s or more into the session: the tick
\* re-armed the deadline and the monster is at full HP.
BossEnraged ==
    /\ lastOp = "tick"
    /\ level % 5 = 0
    /\ now >= StartAt + 30000
    /\ bossDeadlineAt = now + 30000
    /\ monsterHp = monsterMaxHp

\* C17: an armed boss deadline implies a boss level; a level advance to a
\* boss level arms it at now + 30000, a level advance to a non-boss level
\* and a hard reset clear it.
DeadlineOnlyOnBossLevel ==
    /\ bossDeadlineAt # Null => level % 5 = 0
    /\ lastOp = "nextLevel" =>
         bossDeadlineAt = (IF level % 5 = 0 THEN now + 30000 ELSE Null)
    /\ lastOp = "handleHardReset" => bossDeadlineAt = Null

\* The advance to level 5 has just armed the deadline.
DeadlineArmedAtBossLevel ==
    /\ lastOp = "nextLevel"
    /\ level = 5
    /\ bossDeadlineAt = now + 30000

\* C18: 0 <= mana <= manaMax in every reachable state.
ManaWithinBounds == 0 <= mana /\ mana <= manaMax

\* A tick found the mana within one regeneration of the maximum and
\* stopped at the maximum.
ManaRegenClamped ==
    /\ lastOp = "tick"
    /\ mana = manaMax
    /\ clicks = 0

\* C19: the step in which damage brings monsterHp to 0 leaves level,
\* monsterMaxHp and bossDeadlineAt unchanged, with monsterHp = 0 at the old
\* level; the level advance is a separate later step that works from the
\* committed state: it raises the level it finds by one.
KillThenDeferredAdvance ==
    [][/\ Len(timeouts') > Len(timeouts) =>
            /\ monsterHp' = 0
            /\ level' = level
            /\ monsterMaxHp' = monsterMaxHp
            /\ bossDeadlineAt' = bossDeadlineAt
       /\ lastOp' = "nextLevel" =>
            /\ Len(timeouts') < Len(timeouts)
            /\ level' = level + 1
      ]_vars

\* The gold multiplier of the zone of level l, in tenths.
ZoneGoldTenths(l) == IF l <= 20 THEN 10 ELSE IF l <= 40 THEN 13 ELSE 10

\* C20: a kill adds max(1, floor(monsterMaxHp * 0.05 * goldMultiplier of
\* the current level's zone)) gold, plus 25 when the bonus roll succeeds
\* (on a tick, on top of the passive gold of that tick).
KillGoldReward ==
    [][Len(timeouts') > Len(timeouts) =>
         LET r == Max(1, (monsterMaxHp * 5 * ZoneGoldTenths(level)) \div 1000)
             passive == IF lastOp' = "tick" THEN passiveGold ELSE 0
         IN  /\ r >= 1
             /\ gold' - gold - passive \in {r, r + 25}]_vars

\* A tap has just killed the level-21 monster (1734 HP, second zone) and
\* the bonus dropped: 112 + 25 gold on top of the 40 loaded.
SecondZoneKillWithBonus ==
    /\ lastOp = "handleAttack"
    /\ level = 21
    /\ monsterHp = 0
    /\ monsterMaxHp = 1734
    /\ gold = 40 + 112 + 25

\* C21: a successful purchase of the tap upgrade, the passive upgrade,
\* mercenaries or a familiar deducts exactly the cost computed from the
\* pre-purchase stat or level and raises that stat or level by exactly 1;
\* every other stat and level is unchanged.
PurchaseChargesPrePurchaseCost ==
    [][/\ (buyTapUpgrade /\ gold >= nextTapUpgradeCost(tapDamage)) =>
            /\ gold' = gold - nextTapUpgradeCost(tapDamage)
            /\ tapDamage' = tapDamage + 1
            /\ UNCHANGED <<level, passiveIncome, monsterMaxHp, monsterHp, mana, manaMax,
                           mercenariesLevel, familiars, spells, bossDeadlineAt>>
       /\ (buyPassiveUpgrade /\ gold >= nextPassiveUpgradeCost(passiveIncome)) =>
            /\ gold' = gold - nextPassiveUpgradeCost(passiveIncome)
            /\ passiveIncome' = passiveIncome + 1
            /\ UNCHANGED <<level, tapDamage, monsterMaxHp, monsterHp, mana, manaMax,
                           mercenariesLevel, familiars, spells, bossDeadlineAt>>
       /\ (buyMercenaries /\ gold >= mercenariesCost(mercenariesLevel)) =>
            /\ gold' = gold - mercenariesCost(mercenariesLevel)
            /\ mercenariesLevel' = mercenariesLevel + 1
            /\ UNCHANGED <<level, tapDamage, passiveIncome, monsterMaxHp, monsterHp, mana,
                           manaMax, familiars, spells, bossDeadlineAt>>
       /\ \A k \in FamiliarKinds :
            (/\ buyFamiliar(k) /\ familiars[k].unlocked
             /\ gold >= familiarCost(k, familiars[k].level)) =>
              /\ gold' = gold - familiarCost(k, familiars[k].level)
              /\ familiars'[k].level = familiars[k].level + 1
              /\ familiars'[k].unlocked = familiars[k].unlocked
              /\ \A j \in FamiliarKinds \ {k} : familiars'[j] = familiars[j]
              /\ UNCHANGED <<level, tapDamage, passiveIncome, monsterMaxHp, monsterHp, mana,
                             manaMax, mercenariesLevel, spells, bossDeadlineAt>>
      ]_vars

\* The tap upgrade has just been bought at tapDamage 2 for ceil(10 * 1.35)
\* = 14 of the 100 gold loaded.
TapUpgradeBought ==
    /\ lastOp = "buyTapUpgrade"
    /\ tapDamage = 3
    /\ gold = 100 - 14
    /\ level = 4

\* C22: a successful Armor Break sets monsterHp to max(1, floor(0.8 * the
\* previous monsterHp)) and only its cooldown; monsterHp stays at 1 or more,
\* and there is no kill: no gold, no scheduled level advance.
ArmorBreakNeverKills ==
    [][(/\ castArmorBreak /\ mana >= 50 * ManaScale
        /\ now >= spells.armorBreakCdEndAt /\ level % 5 = 0) =>
          /\ monsterHp' = Max(1, (monsterHp * 4) \div 5)
          /\ monsterHp' >= 1
          /\ spells'.arcaneBurstEndAt = spells.arcaneBurstEndAt
          /\ spells'.timeWarpEndAt = spells.timeWarpEndAt
          /\ spells'.armorBreakCdEndAt > now
          /\ UNCHANGED <<gold, level, monsterMaxHp, timeouts, bossDeadlineAt>>
      ]_vars

\* Armor Break has just taken the level-20 boss from 3 HP to 2.
ArmorBreakOnWeakBoss ==
    /\ lastOp = "castArmorBreak"
    /\ level = 20
    /\ monsterHp = 2
    /\ spells.armorBreakCdEndAt = now + 72000

\* C23: buying a familiar whose unlocked flag is false changes nothing,
\* whatever the gold; the flag turns true only in a level advance that
\* reaches the familiar's threshold.
LockedFamiliarNotSold ==
    [][/\ \A k \in FamiliarKinds :
            (buyFamiliar(k) /\ ~familiars[k].unlocked) =>
                UNCHANGED <<gameVars, timeouts, store>>
       /\ \A k \in FamiliarKinds :
            (~familiars[k].unlocked /\ familiars'[k].unlocked) =>
                /\ lastOp' = "nextLevel"
                /\ level' >= (CASE k = "sprite" -> 5 [] k = "golem" -> 20 [] k = "dragon" -> 60)
      ]_vars

\* A familiar was clicked with 100 gold or more in hand, all three still
\* locked at level 4.
LockedFamiliarClicked ==
    /\ lastOp = "buyFamiliar"
    /\ level = 4
    /\ gold >= 100
    /\ \A k \in FamiliarKinds : ~familiars[k].unlocked /\ familiars[k].level = 0

\* C24: a snapshot written from a game state and loaded less than one
\* second later restores gold, level, tapDamage, passiveIncome,
\* monsterMaxHp, monsterHp, mana, manaMax, mercenariesLevel, familiars and
\* spells exactly: over a page reload, and for the snapshot an autosave has
\* just written.
SnapshotRoundTrip ==
    [][/\ (lastOp' = "reload" /\ now' - now < 1000) =>
            UNCHANGED <<gold, level, tapDamage, passiveIncome, monsterMaxHp, monsterHp,
                        mana, manaMax, mercenariesLevel, familiars, spells>>
       /\ lastOp = "autosave" =>
            \A x \in store :
                LoadedState(x, now + TimeStep) =
                    [f \in DOMAIN Snapshot \ {"lastSavedAt"} |-> Snapshot[f]]
      ]_vars

\* The page was reloaded at level 20 with a sprite owned and both spell
\* cooldowns still running.
ReloadedWithSpellsAndFamiliars ==
    /\ lastOp = "reload"
    /\ level = 20
    /\ gold = 300
    /\ passiveIncome = 3
    /\ familiars.sprite.level = 1
    /\ spells.arcaneBurstCdEndAt > now
    /\ spells.timeWarpCdEndAt > now
    /\ mana = 100 * ManaScale

\* C25: monsterHpForLevel(L + 1) > monsterHpForLevel(L) at every level L;
\* the same function gives the monster of a fresh game, of a hard reset
\* and, times the zone's HP multiplier, of a level advance.
MonsterHpStrictlyIncreasing ==
    /\ initialMonsterHpForLevel(level + 1) > initialMonsterHpForLevel(level)
    /\ (lastOp = "load" /\ store = {}) => monsterMaxHp = initialMonsterHpForLevel(1)
    /\ lastOp = "handleHardReset" => monsterMaxHp = initialMonsterHpForLevel(1)
    /\ (lastOp = "nextLevel" /\ level <= 21) =>
            monsterMaxHp = initialMonsterHpForLevel(level)
    /\ (lastOp = "nextLevel" /\ level > 21) =>
            monsterMaxHp = (initialMonsterHpForLevel(level) * 5) \div 4

\* The advance from level 24 to 25 has spawned a monster of more HP than
\* the curve gives at level 24.
AdvancedToLevel25 ==
    /\ lastOp = "nextLevel"
    /\ level = 25
    /\ monsterMaxHp > initialMonsterHpForLevel(24)
    /\ monsterHp = monsterMaxHp

\* C26: every upgrade cost is strictly increasing in the stat or level it
\* is computed from: cost(n + 1) > cost(n) for the tap upgrade, the
\* passive upgrade, mercenaries and the three familiars, whose costs are
\* 30 + 20 * level, 200 + 120 * level and 1000 + 600 * level.
UpgradeCostsStrictlyIncreasing ==
    /\ nextTapUpgradeCost(tapDamage + 1) > nextTapUpgradeCost(tapDamage)
    /\ nextPassiveUpgradeCost(passiveIncome + 1) > nextPassiveUpgradeCost(passiveIncome)
    /\ mercenariesCost(mercenariesLevel + 1) > mercenariesCost(mercenariesLevel)
    /\ \A k \in FamiliarKinds :
        familiarCost(k, familiars[k].level + 1) > familiarCost(k, familiars[k].level)
    /\ familiarCost("sprite", familiars.sprite.level) = 30 + 20 * familiars.sprite.level
    /\ familiarCost("golem", familiars.golem.level) = 200 + 120 * familiars.golem.level
    /\ familiarCost("dragon", familiars.dragon.level) = 1000 + 600 * familiars.dragon.level

\* Mercenaries were hired for the 9th and the 10th time, at 299 and then
\* 373 gold.
MercenariesHiredTwice ==
    /\ lastOp = "buyMercenaries"
    /\ mercenariesLevel = 10
    /\ gold = 5000 - 299 - 373

\* C27: the auto-damage of a tick is the sprite's level (unlocked, level >
\* 0), plus max(2, sprite level * 6 + golem level * 2) when the golem
\* (unlocked, level > 0) triggers, plus the mercenaries level; it goes
\* through the damage rule of taps: HP floored at 0, and a kill by it
\* awards the kill reward (plus the 25 gold bonus when it drops) and
\* schedules one level advance.  A tick of zero auto-damage changes
\* monsterHp only by the enrage reset.
TickAutoDamage ==
    [][lastOp' = "tick" =>
        LET sprite == IF familiars.sprite.unlocked /\ familiars.sprite.level > 0
                      THEN familiars.sprite.level ELSE 0
            golem  == Max(2, familiars.sprite.level * 6 + familiars.golem.level * 2)
            base   == sprite + mercenariesLevel
            rolls  == IF familiars.golem.unlocked /\ familiars.golem.level > 0
                      THEN {base, base + golem} ELSE {base}
            expired == /\ level % 5 = 0 /\ bossDeadlineAt # Null /\ now >= bossDeadlineAt
        IN  \E d \in rolls :
              LET hpAfter == IF d > 0 THEN Max(0, monsterHp - d) ELSE monsterHp
                  kill == d > 0 /\ hpAfter = 0
              IN  /\ monsterHp' = IF expired THEN monsterMaxHp ELSE hpAfter
                  /\ IF kill
                     THEN /\ timeouts' = Append(timeouts, nextLevelClosure)
                          /\ gold' - gold - passiveGold \in
                                {killGold(monsterMaxHp, level),
                                 killGold(monsterMaxHp, level) + 25}
                     ELSE /\ timeouts' = timeouts
                          /\ gold' = gold + passiveGold
      ]_vars

\* Without a click, the sprite and the mercenary have brought the level-20
\* boss from 3 HP to 0 in two ticks.
BossKilledByAutoDamage ==
    /\ lastOp = "tick"
    /\ clicks = 0
    /\ level = 20
    /\ familiars.sprite.level = 1
    /\ mercenariesLevel = 1
    /\ monsterHp = 0
    /\ Len(timeouts) = 1

\* C28: between two consecutive level advances the kill reward is granted
\* at most once: damage applied while monsterHp is already 0 and the
\* advance is pending awards no gold and schedules no further advance.
RewardOncePerAdvance ==
    [][(/\ monsterHp = 0 /\ timeouts # <<>>
        /\ lastOp' \in {"handleAttack", "tick"}) =>
          /\ timeouts' = timeouts
          /\ gold' = gold + (IF lastOp' = "tick" THEN passiveGold ELSE 0)
      ]_vars

\* C29: a level advance scheduled before a hard reset has no effect once
\* the reset has run: the advance that fires right after the reset, before
\* any kill, leaves level at 1 and monsterMaxHp at monsterHpForLevel(1).
PendingAdvanceDiesWithReset ==
    [][(lastOp = "handleHardReset" /\ lastOp' = "nextLevel") =>
          /\ level' = 1
          /\ monsterMaxHp' = initialMonsterHpForLevel(1)
      ]_vars

\* C30: whenever level mod 5 = 0, bossDeadlineAt is non-null, also right
\* after a snapshot saved on a boss level is loaded.
BossLevelHasDeadline ==
    level % 5 = 0 => bossDeadlineAt # Null

\* C31: a successful Armor Break cast never increases monsterHp, also on a
\* boss brought to 0 HP whose level advance is still pending.
ArmorBreakNeverHeals ==
    [][(/\ castArmorBreak /\ mana >= BreakCost * ManaScale
        /\ now >= spells.armorBreakCdEndAt /\ isBossLevel(level)) =>
          monsterHp' <= monsterHp
      ]_vars

\* C32: for Arcane Burst and Time Warp the effect never outlasts the
\* cooldown (arcaneBurstEndAt <= arcaneBurstCdEndAt, timeWarpEndAt <=
\* timeWarpCdEndAt) in every zone, and neither is cast successfully while
\* its own effect is still active.
EffectEndsWithinCooldown ==
    [][/\ spells.arcaneBurstEndAt <= spells.arcaneBurstCdEndAt
       /\ spells.timeWarpEndAt <= spells.timeWarpCdEndAt
       /\ spells'.arcaneBurstEndAt <= spells'.arcaneBurstCdEndAt
       /\ spells'.timeWarpEndAt <= spells'.timeWarpCdEndAt
       /\ spells'.arcaneBurstEndAt # spells.arcaneBurstEndAt =>
            \/ lastOp' \in {"handleHardReset", "reload"}
            \/ now >= spells.arcaneBurstEndAt
       /\ spells'.timeWarpEndAt # spells.timeWarpEndAt =>
            \/ lastOp' \in {"handleHardReset", "reload"}
            \/ now >= spells.timeWarpEndAt
      ]_vars

\* Time Warp was cast in the second zone, where the cooldown multiplier is
\* 1: the effect ends 40 s before the cooldown.
TimeWarpCastInSecondZone ==
    /\ lastOp = "castTimeWarp"
    /\ level > 20
    /\ spells.timeWarpEndAt = now + 20000
    /\ spells.timeWarpCdEndAt = now + 60000

\* C33: from a fresh game or a hard reset on, each familiar's unlocked
\* flag equals (level >= its threshold: sprite 5, golem 20, dragon 60), a
\* familiar of level > 0 is unlocked, and a flag goes from true to false
\* only in a hard reset.
FamiliarFlagsFollowLevel ==
    [][/\ \A k \in FamiliarKinds :
            /\ familiars[k].unlocked =
                  (level >= (CASE k = "sprite" -> 5 [] k = "golem" -> 20 [] k = "dragon" -> 60))
            /\ familiars'[k].unlocked =
                  (level' >= (CASE k = "sprite" -> 5 [] k = "golem" -> 20 [] k = "dragon" -> 60))
            /\ familiars'[k].level > 0 => familiars'[k].unlocked
            /\ (familiars[k].unlocked /\ ~familiars'[k].unlocked) =>
                  lastOp' = "handleHardReset"
      ]_vars

====
